---- MODULE Spec2Model ----
(***************************************************************************)
(* State-machine model of the n-gram language model of assignment_3        *)
(* (src/assignments/assignment_3/src/core/ngram.py): NgramModel.train,     *)
(* conditional_probability_distribution, generate, save and load.          *)
(*                                                                         *)
(* A Counter is a function from its keys to positive integers, a           *)
(* defaultdict(Counter) a function from histories to such functions, a     *)
(* tuple a sequence.  A probability is an exact fraction [num, den]; the   *)
(* floating-point rounding of the program is not modelled.                 *)
(***************************************************************************)
EXTENDS Integers, Sequences, FiniteSets, TLC

VARIABLES
    m,          \* the NgramModel instance built by the training script
    trained,    \* the corpora m.train was called with, in call order
    disk,       \* the models directory: file stem -> JSON document
    dirty,      \* m.train was called since the last m.save
    loaded,     \* the instance returned by the last NgramModel.load
    loadedName, \* the model_name argument of that call
    q,          \* the last conditional_probability_distribution call
    gen         \* the model.generate call in progress or last finished

vars == <<m, trained, disk, dirty, loaded, loadedName, q, gen>>

----------------------------------------------------------------------------
(* Bounds of the model *)

MaxOrder == 3
MaxDocLen == 3
MaxTrains == 2
MaxTokens == 2

(* Program constants: BACKOFF_ALPHA = 0.1 as the fraction AlphaNum/AlphaDen *)
AlphaNum == 1
AlphaDen == 10

----------------------------------------------------------------------------
(* Inputs *)

Tokens == {"the", "cat", "sat", "dog"}
GenTokens == {"the", "cat"}
Unknown == "zzz"
ModelName == "m"

SeqsUpTo(S, n) == UNION {[1..k -> S] : k \in 0..n}

Docs == SeqsUpTo(GenTokens, MaxDocLen)

ScenarioCorpus == << <<"the", "cat", "sat">>, <<"the", "dog", "sat">> >>

ThreeSentences ==
    << <<"the", "cat", "sat">>, <<"the", "dog", "sat">>, <<"the", "cat", "sat", "the">> >>

(* the empty folder, every folder of one generated file, and two folders of
   several files *)
Corpora == {<<>>} \cup {<<d>> : d \in Docs} \cup {ScenarioCorpus, ThreeSentences}

RetrainCorpora == { <<>>, << <<"the", "cat", "sat">> >> }

QCorpora ==
    { <<>>, ScenarioCorpus, ThreeSentences,
      << <<"the", "cat">> >>, << <<"the", "the", "the">> >> }

----------------------------------------------------------------------------
(* Python values *)

NoModel == [none |-> TRUE]
Idle == [status |-> "idle"]
FileNotFound == [error |-> "FileNotFoundError"]
ZeroDivision == [error |-> "ZeroDivisionError"]

EmptyCounter == <<>>

Front(s) == SubSeq(s, 1, Len(s) - 1)
Last(s) == s[Len(s)]

RECURSIVE SumOver(_, _)
SumOver(f, S) ==
    IF S = {} THEN 0
    ELSE LET x == CHOOSE y \in S : TRUE IN f[x] + SumOver(f, S \ {x})

CounterTotal(c) == SumOver(c, DOMAIN c)

CounterGet(c, k) == IF k \in DOMAIN c THEN c[k] ELSE 0

CounterAdd(c, k, n) ==
    IF k \in DOMAIN c THEN [c EXCEPT ![k] = @ + n]
    ELSE [x \in DOMAIN c \cup {k} |-> IF x = k THEN n ELSE c[x]]

RECURSIVE CounterUpdate(_, _)
CounterUpdate(c, items) ==
    IF items = <<>> THEN c
    ELSE CounterUpdate(CounterAdd(c, Head(items), 1), Tail(items))

Range(s) == {s[i] : i \in DOMAIN s}

(* ngrams with the last window of every document lost (an off-by-one in the
   window range) *)
ngramsDropLast(tokens, n) ==
    [i \in 1..(IF Len(tokens) >= n THEN Len(tokens) - n ELSE 0)
        |-> SubSeq(tokens, i, i + n - 1)]

(* nltk.ngrams(tokens, n): every contiguous window of n tokens, in order *)
ngrams(tokens, n) ==
    [i \in 1..(IF Len(tokens) >= n THEN Len(tokens) - n + 1 ELSE 0)
        |-> SubSeq(tokens, i, i + n - 1)]

(* Python's None is the empty tuple and a given argument x the tuple <<x>> *)
None == <<>>
Some(x) == <<x>>
Given(opt) == opt[1]

(* the truth value of an optional number: None and 0 are false *)
Truthy(opt) == opt # None /\ Given(opt) # 0

(* the same for an optional float, held as a fraction: None and 0.0 are false *)
TruthyFloat(opt) == opt # None /\ Given(opt).num # 0

(* seq[:k]: the first k items, or all but the last -k for a negative k *)
SliceTo(seq, k) ==
    IF k >= 0
    THEN SubSeq(seq, 1, IF k < Len(seq) THEN k ELSE Len(seq))
    ELSE SubSeq(seq, 1, IF Len(seq) + k > 0 THEN Len(seq) + k ELSE 0)

(* seq[-k:]: the last k items; -0 is 0, so seq[-0:] is the whole sequence *)
SliceLast(seq, k) ==
    IF k = 0 \/ k >= Len(seq) THEN seq
    ELSE SubSeq(seq, Len(seq) - k + 1, Len(seq))

(* the keys of a dict in insertion order: the first occurrences in s *)
RECURSIVE FirstSeen(_)
FirstSeen(s) ==
    IF s = <<>> THEN <<>>
    ELSE LET f == FirstSeen(Front(s))
         IN IF Last(s) \in Range(f) THEN f ELSE Append(f, Last(s))

Perms(S) == {p \in [1..Cardinality(S) -> S] : Range(p) = S}

----------------------------------------------------------------------------
(* NgramModel *)

NgramModel(name, n_gram_size, use_smoothing, use_stupid_backoff) ==
    [name |-> name,
     n_gram_size |-> n_gram_size,
     use_smoothing |-> use_smoothing,
     use_stupid_backoff |-> use_stupid_backoff,
     ngram_counter |-> EmptyCounter,
     model |-> <<>>,
     vocab |-> {},
     backoff_models |-> <<>>]

BackoffName(name, order) == name \o "-" \o ToString(order) \o "gram"

RECURSIVE Concat(_)
Concat(seqs) == IF seqs = <<>> THEN <<>> ELSE Head(seqs) \o Concat(Tail(seqs))

(* the first pass taking the vocabulary from the tokens that start a
   bigram, so that the last token of a file is left out *)
RECURSIVE CountFilesVocabFront(_, _)
CountFilesVocabFront(self, files) ==
    IF files = <<>> THEN self
    ELSE LET tokens == Head(files)
             counted == [self EXCEPT
                 !.vocab = @ \cup Range(Front(tokens)),
                 !.ngram_counter = CounterUpdate(@, ngrams(tokens, self.n_gram_size))]
         IN CountFilesVocabFront(counted, Tail(files))

(* the first pass reading the folder as one text: n-grams run across the
   boundary between two files *)
CountFilesJoined(self, files) ==
    [self EXCEPT
        !.vocab = @ \cup Range(Concat(files)),
        !.ngram_counter = CounterUpdate(@, ngrams(Concat(files), self.n_gram_size))]

(* train, first pass: per file, add the tokens to vocab and count the n-grams *)
RECURSIVE CountFiles(_, _)
CountFiles(self, files) ==
    IF files = <<>> THEN self
    ELSE LET tokens == Head(files)
             counted == [self EXCEPT
                 !.vocab = @ \cup Range(tokens),
                 !.ngram_counter = CounterUpdate(@, ngrams(tokens, self.n_gram_size))]
         IN CountFiles(counted, Tail(files))

(* train, second pass: model[history][continuation] += count for every
   n-gram of ngram_counter *)
BuildDistributions(model, ngram_counter) ==
    LET hs == DOMAIN model \cup {Front(g) : g \in DOMAIN ngram_counter}
        old(h) == IF h \in DOMAIN model THEN model[h] ELSE EmptyCounter
        ws(h) == DOMAIN old(h) \cup
                 {Last(g) : g \in {x \in DOMAIN ngram_counter : Front(x) = h}}
    IN [h \in hs |->
           [w \in ws(h) |->
               CounterGet(old(h), w) + CounterGet(ngram_counter, Append(h, w))]]

RECURSIVE train(_, _)
RECURSIVE TrainBackoff(_, _, _)

(* the backoff loop handing its own use_stupid_backoff down to the models it
   builds, instead of False *)
TrainBackoffInherit(self, corpus, order) ==
    IF order <= 0 THEN self
    ELSE LET backoff == train(NgramModel(BackoffName(self.name, order), order,
                                         self.use_smoothing,
                                         self.use_stupid_backoff), corpus)
         IN TrainBackoff([self EXCEPT !.backoff_models = Append(@, backoff)],
                         corpus, order - 1)

(* the backoff loop deriving the counts of a lower order from the counts of
   the model itself (the n-grams cut to their first tokens) instead of
   counting the folder again *)
TrainBackoffMarginal(self, corpus, order) ==
    IF order <= 0 THEN self
    ELSE LET prefix(gram) == SubSeq(gram, 1, order)
             counts == [p \in {prefix(gram) : gram \in DOMAIN self.ngram_counter} |->
                          SumOver(self.ngram_counter,
                                  {gram \in DOMAIN self.ngram_counter : prefix(gram) = p})]
             fresh == NgramModel(BackoffName(self.name, order), order,
                                 self.use_smoothing, FALSE)
             backoff == [fresh EXCEPT
                            !.vocab = self.vocab,
                            !.ngram_counter = counts,
                            !.model = BuildDistributions(@, counts)]
         IN TrainBackoff([self EXCEPT !.backoff_models = Append(@, backoff)],
                         corpus, order - 1)

(* train, third part: for order in range(n_gram_size - 1, 0, -1) build a
   model without backoff, train it on the same folder and append it *)
TrainBackoff(self, corpus, order) ==
    IF order <= 0 THEN self
    ELSE LET backoff == train(NgramModel(BackoffName(self.name, order), order,
                                         self.use_smoothing, FALSE), corpus)
         IN TrainBackoff([self EXCEPT !.backoff_models = Append(@, backoff)],
                         corpus, order - 1)

train(self, corpus) ==
    LET counted == CountFiles(self, corpus)
        built == [counted EXCEPT
                     !.model = BuildDistributions(@, counted.ngram_counter)]
    IN IF built.use_stupid_backoff /\ built.n_gram_size > 1
       THEN TrainBackoff(built, corpus, built.n_gram_size - 1)
       ELSE built

----------------------------------------------------------------------------
(* Persistence: str(tuple) on save, eval of that text on load *)

Quote(tok) == "'" \o tok \o "'"

RECURSIVE JoinComma(_)
JoinComma(t) ==
    IF Len(t) = 1 THEN Quote(t[1])
    ELSE Quote(t[1]) \o ", " \o JoinComma(Tail(t))

(* str(k) of a tuple of strings: "()", "('the',)", "('the', 'cat')" *)
Repr(t) ==
    IF Len(t) = 0 THEN "()"
    ELSE IF Len(t) = 1 THEN "(" \o Quote(t[1]) \o ",)"
    ELSE "(" \o JoinComma(t) \o ")"

PyTuples == SeqsUpTo(Tokens, MaxOrder)

ReprTable == [t \in PyTuples |-> Repr(t)]

(* eval(text) of a text written by str(tuple): the tuple it denotes *)
Eval(text) == CHOOSE t \in PyTuples : ReprTable[t] = text

JsonGet(doc, key, default) == IF key \in DOMAIN doc THEN doc[key] ELSE default

DiskWrite(files, stem, doc) ==
    [x \in DOMAIN files \cup {stem} |-> IF x = stem THEN doc ELSE files[x]]

(* the "ngram_counts" entry: for unigrams {str(k): v} over ngram_counter,
   otherwise {str(history): dict(continuations)} over model *)
CountsData(self) ==
    LET src == IF self.n_gram_size = 1 THEN self.ngram_counter ELSE self.model
    IN [text \in {Repr(k) : k \in DOMAIN src} |->
           src[CHOOSE k \in DOMAIN src : Repr(k) = text]]

ModelData(self) ==
    [name |-> self.name,
     n_gram_size |-> self.n_gram_size,
     use_smoothing |-> self.use_smoothing,
     use_stupid_backoff |-> self.use_stupid_backoff,
     ngram_counts |-> CountsData(self),
     vocab |-> self.vocab]

RECURSIVE save(_, _)
RECURSIVE SaveBackoff(_, _)

SaveBackoff(models, files) ==
    IF models = <<>> THEN files
    ELSE SaveBackoff(Tail(models), save(Head(models), files))

save(self, files) ==
    SaveBackoff(self.backoff_models, DiskWrite(files, self.name, ModelData(self)))

(* load, unigram branch: ngram_counter.update({tuple([eval(k)]): v});
   model is left as constructed *)
RestoreUnigram(model, counts) ==
    [model EXCEPT !.ngram_counter =
        [k \in {<<Eval(text)>> : text \in DOMAIN counts} |->
            counts[CHOOSE text \in DOMAIN counts : <<Eval(text)>> = k]]]

(* load, n-gram branch: model[history].update(continuations) and
   ngram_counter[history + (word,)] = count *)
RestoreNgram(model, counts) ==
    LET hist(text) == Eval(text)
        grams == UNION {{Append(hist(text), w) : w \in DOMAIN counts[text]} :
                          text \in DOMAIN counts}
    IN [model EXCEPT
           !.model = [h \in {hist(text) : text \in DOMAIN counts} |->
                         counts[CHOOSE text \in DOMAIN counts : hist(text) = h]],
           !.ngram_counter = [g \in grams |-> counts[Repr(Front(g))][Last(g)]]]

(* a file whose text is not JSON *)
Garbled == [garbled |-> TRUE]

(* The exception a document raises before the backoff loop, "" for none:
   json.load fails on text that is not JSON; model_data["name"],
   ["n_gram_size"], ["vocab"] and ["ngram_counts"] raise KeyError on a
   missing key, while use_smoothing and use_stupid_backoff are read with
   .get(key, False). *)
DocumentError(model_data) ==
    IF "garbled" \in DOMAIN model_data THEN "JSONDecodeError"
    ELSE IF \E key \in {"name", "n_gram_size", "vocab", "ngram_counts"} :
               key \notin DOMAIN model_data
         THEN "KeyError"
         ELSE ""

RECURSIVE load(_, _)
RECURSIVE LoadBackoff(_, _, _)
RECURSIVE LoadBackoffSkip(_, _, _)
RECURSIVE ChainError(_, _, _)

(* The exception that leaves the backoff loop, "" for none: only
   FileNotFoundError is caught there, any other exception of a nested load
   ends the whole call. *)
ChainError(model_name, files, order) ==
    IF order <= 0 THEN ""
    ELSE LET backoff == load(BackoffName(model_name, order), files)
         IN IF backoff = FileNotFound THEN ""
            ELSE IF "error" \in DOMAIN backoff THEN backoff.error
            ELSE ChainError(model_name, files, order - 1)

(* the backoff loop going on to the lower orders past a missing file *)
LoadBackoffSkip(model_name, files, order) ==
    IF order <= 0 THEN <<>>
    ELSE LET backoff == load(BackoffName(model_name, order), files)
         IN IF backoff = FileNotFound
            THEN LoadBackoffSkip(model_name, files, order - 1)
            ELSE <<backoff>> \o LoadBackoffSkip(model_name, files, order - 1)

(* load, backoff loop: for order in range(n_gram_size - 1, 0, -1), load
   "{model_name}-{order}gram"; the first missing file ends the loop *)
LoadBackoff(model_name, files, order) ==
    IF order <= 0 THEN <<>>
    ELSE LET backoff == load(BackoffName(model_name, order), files)
         IN IF backoff = FileNotFound THEN <<>>
            ELSE <<backoff>> \o LoadBackoff(model_name, files, order - 1)

load(model_name, files) ==
    IF model_name \notin DOMAIN files THEN FileNotFound
    ELSE IF DocumentError(files[model_name]) # ""
    THEN [error |-> DocumentError(files[model_name])]
    ELSE LET model_data == files[model_name]
             fresh == NgramModel(model_data.name, model_data.n_gram_size,
                                 JsonGet(model_data, "use_smoothing", FALSE),
                                 JsonGet(model_data, "use_stupid_backoff", FALSE))
             withVocab == [fresh EXCEPT !.vocab = model_data.vocab]
             restored == IF withVocab.n_gram_size = 1
                         THEN RestoreUnigram(withVocab, model_data.ngram_counts)
                         ELSE RestoreNgram(withVocab, model_data.ngram_counts)
             failed == ChainError(model_name, files, restored.n_gram_size - 1)
         IN IF restored.use_stupid_backoff
            THEN IF failed # "" THEN [error |-> failed]
                 ELSE [restored EXCEPT !.backoff_models =
                          LoadBackoff(model_name, files, restored.n_gram_size - 1)]
            ELSE restored

----------------------------------------------------------------------------
(* Probabilities as exact fractions *)

Frac(n, d) == [num |-> n, den |-> d]
FracEq(a, b) == a.num * b.den = b.num * a.den
FracLess(a, b) == a.num * b.den < b.num * a.den
FracTimes(a, b) == Frac(a.num * b.num, a.den * b.den)
BACKOFF_ALPHA == Frac(AlphaNum, AlphaDen)

FracAdd(a, b) ==
    IF a.den = b.den THEN Frac(a.num + b.num, a.den)
    ELSE Frac(a.num * b.den + b.num * a.den, a.den * b.den)

IsError(v) == "error" \in DOMAIN v

(* the backed-off distribution handed on without the discount *)
ScaleDistNone(backoff_dist, alpha) == backoff_dist

(* {w: p * settings.BACKOFF_ALPHA for w, p in backoff_dist.items()} *)
ScaleDist(backoff_dist, alpha) ==
    [w \in DOMAIN backoff_dist |-> FracTimes(backoff_dist[w], alpha)]

(* {word: prob for word in self.vocab} with prob = 1.0 / len(self.vocab) *)
Uniform(vocab) == [word \in vocab |-> Frac(1, Cardinality(vocab))]

(* add-one smoothing whose denominator leaves out the vocabulary size *)
LaplaceNoVocab(counts, vocab) ==
    [word \in vocab |-> Frac(CounterGet(counts, word) + 1, CounterTotal(counts))]

(* Laplace smoothing:
   {word: (counts.get(word, 0) + 1) / (total + vocab_size) for word in vocab} *)
Laplace(counts, vocab) ==
    LET total == CounterTotal(counts)
        vocab_size == Cardinality(vocab)
    IN [word \in vocab |-> Frac(CounterGet(counts, word) + 1, total + vocab_size)]

(* the estimate divided by the number of distinct continuations instead of
   their total count *)
MLEByLen(counts) ==
    [word \in DOMAIN counts |-> Frac(counts[word], Cardinality(DOMAIN counts))]

(* maximum likelihood: {word: count / total for word, count in counts.items()} *)
MLE(counts) ==
    LET total == CounterTotal(counts)
    IN [word \in DOMAIN counts |-> Frac(counts[word], total)]

(* the method backing off whenever a chain is at hand, seen history or not *)
RECURSIVE DistributionBackoffFirst(_, _)
DistributionBackoffFirst(self, history) ==
    IF self.use_stupid_backoff /\ self.backoff_models # <<>>
    THEN LET shorter_hist == IF Len(history) > 0 THEN Tail(history) ELSE <<>>
             backoff_dist == DistributionBackoffFirst(
                                 self.backoff_models[1], shorter_hist)
         IN IF IsError(backoff_dist) THEN backoff_dist
            ELSE [dist |-> ScaleDist(backoff_dist.dist, BACKOFF_ALPHA)]
    ELSE IF history \notin DOMAIN self.model
         THEN IF self.vocab = {} THEN ZeroDivision
              ELSE [dist |-> Uniform(self.vocab)]
         ELSE LET counts == self.model[history]
              IN IF self.use_smoothing
                 THEN [dist |-> Laplace(counts, self.vocab)]
                 ELSE [dist |-> MLE(counts)]

(* The result is [dist |-> word -> probability], or ZeroDivision when the
   uniform fallback divides by an empty vocabulary. *)
RECURSIVE conditional_probability_distribution(_, _)
conditional_probability_distribution(self, history) ==
    IF history \notin DOMAIN self.model
    THEN IF self.use_stupid_backoff /\ self.backoff_models # <<>>
         THEN LET shorter_hist == IF Len(history) > 0 THEN Tail(history) ELSE <<>>
                  backoff_dist == conditional_probability_distribution(
                                      self.backoff_models[1], shorter_hist)
              IN IF IsError(backoff_dist) THEN backoff_dist
                 ELSE [dist |-> ScaleDist(backoff_dist.dist, BACKOFF_ALPHA)]
         ELSE IF self.vocab = {} THEN ZeroDivision
              ELSE [dist |-> Uniform(self.vocab)]
    ELSE LET counts == self.model[history]
         IN IF self.use_smoothing
            THEN [dist |-> Laplace(counts, self.vocab)]
            ELSE [dist |-> MLE(counts)]

(* self.model is a defaultdict(Counter): model[key] inserts an empty Counter
   under a key it does not hold.  The dict after model[key]: *)
Indexed(model, key) ==
    IF key \in DOMAIN model THEN model
    ELSE [k \in DOMAIN model \cup {key} |->
             IF k = key THEN EmptyCounter ELSE model[k]]

(* counts = self.model[history] read ahead of the membership test *)
AfterDistributionIndexFirst(self, history) ==
    [self EXCEPT !.model = Indexed(@, history)]

(* The instance after conditional_probability_distribution(history).  The
   method assigns no attribute; it indexes self.model only behind the test
   `history not in self.model`, and calls the same method of
   backoff_models[0]. *)
RECURSIVE AfterDistribution(_, _)
AfterDistribution(self, history) ==
    IF history \notin DOMAIN self.model
    THEN IF self.use_stupid_backoff /\ self.backoff_models # <<>>
         THEN [self EXCEPT !.backoff_models[1] =
                   AfterDistribution(@, IF Len(history) > 0 THEN Tail(history) ELSE <<>>)]
         ELSE self
    ELSE [self EXCEPT !.model = Indexed(@, history)]

----------------------------------------------------------------------------
(* generate *)

(* The iteration order of a dict is its insertion order.  A Counter of the
   model is filled in the order the first pass meets the n-grams of the
   files, so the continuations of a history come in the order of their first
   occurrence in the files the instance was trained on. *)
RECURSIVE WindowsOf(_, _)
WindowsOf(files, n) ==
    IF files = <<>> THEN <<>>
    ELSE ngrams(Head(files), n) \o WindowsOf(Tail(files), n)

RECURSIVE ContinuationsIn(_, _)
ContinuationsIn(windows, history) ==
    IF windows = <<>> THEN <<>>
    ELSE (IF Front(Head(windows)) = history THEN <<Last(Head(windows))>> ELSE <<>>)
         \o ContinuationsIn(Tail(windows), history)

CounterOrder(files, n, history) ==
    FirstSeen(ContinuationsIn(WindowsOf(files, n), history))

(* The iteration order of a set of strings follows their hashes, which the
   interpreter draws when it starts: order is the order it gives the tokens,
   and a set iterates in that order. *)
RECURSIVE SetOrder(_, _)
SetOrder(S, order) ==
    IF order = <<>> THEN <<>>
    ELSE (IF Head(order) \in S THEN <<Head(order)>> ELSE <<>>)
         \o SetOrder(S, Tail(order))

(* dist.keys() of the dict conditional_probability_distribution returns,
   for an instance trained on the folders corpora in turn; the chain
   consulted is the one the first train call built *)
RECURSIVE DictKeys(_, _, _, _)
DictKeys(self, history, corpora, order) ==
    IF history \notin DOMAIN self.model
    THEN IF self.use_stupid_backoff /\ self.backoff_models # <<>>
         THEN DictKeys(self.backoff_models[1],
                       IF Len(history) > 0 THEN Tail(history) ELSE <<>>,
                       <<corpora[1]>>, order)
         ELSE SetOrder(self.vocab, order)
    ELSE IF self.use_smoothing
         THEN SetOrder(self.vocab, order)
         ELSE CounterOrder(Concat(corpora), self.n_gram_size, history)

(* sorted(dist.items(), key=lambda x: x[1], reverse=True): descending by
   probability, items of equal probability in their original order *)
RECURSIVE sorted(_, _)
sorted(keys, dist) ==
    IF keys = <<>> THEN <<>>
    ELSE LET rest == sorted(Front(keys), dist)
             x == Last(keys)
             c == Cardinality({i \in DOMAIN rest : ~FracLess(dist[rest[i]], dist[x])})
         IN SubSeq(rest, 1, c) \o <<x>> \o SubSeq(rest, c + 1, Len(rest))

(* top-k filtering that keeps one item more than asked *)
TopKOneMore(sorted_items, top_k) ==
    IF Truthy(top_k) THEN SliceTo(sorted_items, Given(top_k) + 1) ELSE sorted_items

(* if top_k: sorted_items = sorted_items[:top_k] *)
TopK(sorted_items, top_k) ==
    IF Truthy(top_k) THEN SliceTo(sorted_items, Given(top_k)) ELSE sorted_items

(* cumsum after the first i items *)
RECURSIVE CumSum(_, _, _)
CumSum(sorted_items, dist, i) ==
    IF i = 0 THEN Frac(0, 1)
    ELSE FracAdd(CumSum(sorted_items, dist, i - 1), dist[sorted_items[i]])

(* nucleus sampling: the items up to and including the first one at which
   cumsum > top_p; every item when cumsum never exceeds top_p *)
Nucleus(sorted_items, dist, top_p) ==
    IF TruthyFloat(top_p)
    THEN LET over == {i \in DOMAIN sorted_items :
                         FracLess(Given(top_p), CumSum(sorted_items, dist, i))}
         IN IF over = {} THEN sorted_items
            ELSE SubSeq(sorted_items, 1, CHOOSE i \in over : \A j \in over : i <= j)
    ELSE sorted_items

RECURSIVE FracPow(_, _)
FracPow(p, e) == IF e = 0 THEN Frac(1, 1) ELSE FracTimes(p, FracPow(p, e - 1))

(* p ** (1.0 / temperature) when temperature != 1.0; the temperatures of the
   model are 1/e for a positive integer e, so that the power is exact *)
Tempered(p, temperature) ==
    IF FracEq(temperature, Frac(1, 1)) THEN p
    ELSE FracPow(p, temperature.den \div temperature.num)

(* random.choices(words, weights=probs)[0]: a word can be drawn when its
   normalised weight is positive *)
Choices(words, dist, temperature) ==
    LET probs == [i \in DOMAIN words |-> Tempered(dist[words[i]], temperature)]
        total == CumSum([i \in DOMAIN words |-> i], probs, Len(words))
    IN {words[i] : i \in {j \in DOMAIN words :
                             FracTimes(probs[j], Frac(total.den, total.num)).num > 0}}

(* the iteration taking the fallback for an empty distribution whatever the
   distribution is: a token of the vocabulary drawn uniformly *)
SamplingFallback(self, corpora, order, generated, top_k, top_p, temperature) ==
    [history |-> SliceLast(generated, self.n_gram_size - 1),
     sorted_items |-> <<>>, kept |-> <<>>,
     choices |-> IF IsError(conditional_probability_distribution(
                                self, SliceLast(generated, self.n_gram_size - 1)))
                 THEN {} ELSE self.vocab,
     error |-> IF IsError(conditional_probability_distribution(
                              self, SliceLast(generated, self.n_gram_size - 1)))
               THEN "ZeroDivisionError" ELSE ""]

(* One iteration of the loop of generate up to the draw: the history, the
   sorted items, the items left by the filters and the tokens that can be
   drawn; error names the exception the iteration raises, if any.  zip of no
   item at all cannot be unpacked into words and probs: ValueError. *)
Sampling(self, corpora, order, generated, top_k, top_p, temperature) ==
    LET history == SliceLast(generated, self.n_gram_size - 1)
        result == conditional_probability_distribution(self, history)
        none == [history |-> history, sorted_items |-> <<>>, kept |-> <<>>,
                 choices |-> {}, error |-> ""]
    IN IF IsError(result) THEN [none EXCEPT !.error = result.error]
       ELSE IF DOMAIN result.dist = {} THEN [none EXCEPT !.choices = self.vocab]
       ELSE LET dist == result.dist
                sorted_items == sorted(DictKeys(self, history, corpora, order), dist)
                kept == Nucleus(TopK(sorted_items, top_k), dist, top_p)
            IN IF kept = <<>>
               THEN [none EXCEPT !.sorted_items = sorted_items, !.error = "ValueError"]
               ELSE [history |-> history, sorted_items |-> sorted_items,
                     kept |-> kept, choices |-> Choices(kept, dist, temperature),
                     error |-> ""]

(* the parameter checks tried in another order: the sampling conflict
   before the vocabulary *)
PrecheckConflictFirst(self, top_k, top_p, temperature) ==
    IF top_k # None /\ top_p # None THEN "ConflictingSampling"
    ELSE IF Cardinality(self.vocab) = 0 THEN "EmptyVocabulary"
    ELSE IF ~FracLess(Frac(0, 1), temperature) THEN "InvalidTemperature"
    ELSE ""

(* the temperature before the sampling conflict *)
PrecheckTemperatureFirst(self, top_k, top_p, temperature) ==
    IF Cardinality(self.vocab) = 0 THEN "EmptyVocabulary"
    ELSE IF ~FracLess(Frac(0, 1), temperature) THEN "InvalidTemperature"
    ELSE IF top_k # None /\ top_p # None THEN "ConflictingSampling"
    ELSE ""

(* a temperature of 0 let through *)
PrecheckZeroTemperature(self, top_k, top_p, temperature) ==
    IF Cardinality(self.vocab) = 0 THEN "EmptyVocabulary"
    ELSE IF top_k # None /\ top_p # None THEN "ConflictingSampling"
    ELSE IF FracLess(temperature, Frac(0, 1)) THEN "InvalidTemperature"
    ELSE ""

(* The three checks at the head of generate, in the order of the code; each
   raises ValueError, told apart here by its message:
     "Empty vocabulary - model needs training first"
     "Cannot use both top-k and nucleus sampling. ..."
     "Temperature must be positive"
   The result is "" when all three pass. *)
Precheck(self, top_k, top_p, temperature) ==
    IF Cardinality(self.vocab) = 0 THEN "EmptyVocabulary"
    ELSE IF top_k # None /\ top_p # None THEN "ConflictingSampling"
    ELSE IF ~FracLess(Frac(0, 1), temperature) THEN "InvalidTemperature"
    ELSE ""

(* the record of a generate call: the instance it is made on ("m" or
   "loaded"), its arguments, the seed it starts from, the tokens so far, the
   iterations done, and the history, sorted items and filtered items of the
   last iteration *)
Call(on, status, error, seed, tokens, top_k, top_p, temperature, order, start) ==
    [on |-> on, status |-> status, error |-> error, seed |-> seed, tokens |-> tokens,
     top_k |-> top_k, top_p |-> top_p, temperature |-> temperature,
     order |-> order, start |-> start, generated |-> start, steps |-> 0,
     history |-> <<>>, sorted_items |-> <<>>, kept |-> <<>>]

----------------------------------------------------------------------------
Init ==
    /\ \E n \in 1..MaxOrder, s \in BOOLEAN, b \in BOOLEAN :
          m = NgramModel(ModelName, n, s, b)
    /\ trained = <<>>
    /\ disk = <<>>
    /\ dirty = FALSE
    /\ loaded = NoModel
    /\ loadedName = ""
    /\ q = NoModel
    /\ gen = Idle

(* train.py: model.train(data_path); a second call trains the same instance
   again.  The driver keeps no reloaded copy across a train or a save. *)
TrainOn(first, again) ==
    /\ Len(trained) < MaxTrains
    /\ \E corpus \in (IF trained = <<>> THEN first ELSE again) :
          /\ m' = train(m, corpus)
          /\ trained' = Append(trained, corpus)
    /\ dirty' = TRUE
    /\ loaded' = NoModel
    /\ loadedName' = ""
    /\ q' = NoModel
    /\ gen' = Idle
    /\ UNCHANGED disk

Train == TrainOn(Corpora, RetrainCorpora)

(* the same call on the folders used where distributions are queried; a
   second call reads the same folder again *)
TrainQ == TrainOn(QCorpora, {trained[Len(trained)]})

(* train.py: model.save() *)
Save ==
    /\ disk' = save(m, disk)
    /\ dirty' = FALSE
    /\ loaded' = NoModel
    /\ loadedName' = ""
    /\ q' = NoModel
    /\ UNCHANGED <<m, trained, gen>>

LoadNames == {ModelName} \cup {BackoffName(ModelName, k) : k \in 1..(MaxOrder - 1)}

(* generate.py: NgramModel.load(model_name); a missing primary file raises
   FileNotFoundError, recorded as the outcome of the call *)
Load ==
    /\ \E model_name \in LoadNames :
          /\ loaded' = load(model_name, disk)
          /\ loadedName' = model_name
    /\ q' = NoModel
    /\ UNCHANGED <<m, trained, disk, dirty, gen>>

QueryTokens == {"the", "cat", Unknown}
Histories == SeqsUpTo(QueryTokens, MaxOrder - 1)

IsModel(v) == "n_gram_size" \in DOMAIN v

(* the instances the driver holds: the trained model and the reloaded copy *)
Targets == {"m"} \cup (IF IsModel(loaded) THEN {"loaded"} ELSE {})

Instance(t) == IF t = "m" THEN m ELSE loaded

(* a call model.conditional_probability_distribution(history); the driver
   takes up the result before it calls again *)
Query ==
    /\ q = NoModel
    /\ gen = Idle
    /\ \E t \in Targets, history \in Histories :
          /\ q' = [target |-> t, history |-> history,
                   result |-> conditional_probability_distribution(Instance(t), history)]
          /\ m' = IF t = "m" THEN AfterDistribution(m, history) ELSE m
          /\ loaded' = IF t = "m" THEN loaded ELSE AfterDistribution(loaded, history)
    /\ UNCHANGED <<trained, disk, dirty, loadedName, gen>>

(* the folders of the generation runs: none, a one-token file, two files
   whose continuations tie, and a file with a repeated bigram *)
GCorpora ==
    { <<>>, << <<"the">> >>, << <<"the", "cat">>, <<"the", "dog">> >>,
      << <<"the", "cat", "the", "cat", "the", "the">> >> }

GRetrain == { << <<"the", "cat">> >> }

Seeds == {None, Some(<<"the">>), Some(<<Unknown>>)}
TokenCounts == {0, MaxTokens}
TopKs == {None, Some(-1), Some(0), Some(1), Some(2)}
TopPs == {None, Some(Frac(0, 1)), Some(Frac(1, 2))}
Temperatures == {Frac(-1, 1), Frac(0, 1), Frac(1, 2), Frac(1, 1)}

(* training between two generate calls, never inside one *)
TrainG == gen.status # "running" /\ TrainOn(GCorpora, GRetrain)

(* model.generate(seed, tokens, top_k, top_p, temperature) up to the loop:
   the checks, then the seed, drawn from the histories of the model when none
   is given; random.choice of no history at all raises IndexError.  The
   driver makes one call on the model it has trained. *)
GenStart ==
    /\ gen = Idle
    /\ \E seed \in Seeds, tokens \in TokenCounts, top_k \in TopKs,
          top_p \in TopPs, temperature \in Temperatures :
          LET failed(error) == Call("m", "error", error, seed, tokens, top_k,
                                    top_p, temperature, <<>>, <<>>)
              error == Precheck(m, top_k, top_p, temperature)
          IN IF error # "" THEN gen' = failed(error)
             ELSE IF seed = None /\ DOMAIN m.model = {}
                  THEN gen' = failed("IndexError")
             ELSE \E order \in Perms(m.vocab),
                     start \in (IF seed = None THEN DOMAIN m.model ELSE {Given(seed)}) :
                     gen' = Call("m", "running", "", seed, tokens, top_k, top_p,
                                 temperature, order, start)
    /\ q' = NoModel
    /\ UNCHANGED <<m, trained, disk, dirty, loaded, loadedName>>

(* one iteration of the loop: the draw and generated.append(next_token) *)
GenStep ==
    /\ gen.status = "running"
    /\ gen.steps < gen.tokens
    /\ LET s == Sampling(Instance(gen.on), trained, gen.order, gen.generated,
                         gen.top_k, gen.top_p, gen.temperature)
           seen == [gen EXCEPT !.history = s.history,
                               !.sorted_items = s.sorted_items, !.kept = s.kept]
       IN /\ IF s.error # ""
             THEN gen' = [seen EXCEPT !.status = "error", !.error = s.error]
             ELSE \E next_token \in s.choices :
                     gen' = [seen EXCEPT !.generated = Append(@, next_token),
                                         !.steps = @ + 1]
          /\ m' = IF gen.on = "m" THEN AfterDistribution(m, s.history) ELSE m
          /\ loaded' = IF gen.on = "m" THEN loaded
                       ELSE AfterDistribution(loaded, s.history)
    /\ UNCHANGED <<trained, disk, dirty, loadedName, q>>

(* return " ".join(generated): the tokens of the text, in order *)
GenReturn ==
    /\ gen.status = "running"
    /\ gen.steps = gen.tokens
    /\ gen' = [gen EXCEPT !.status = "done"]
    /\ UNCHANGED <<m, trained, disk, dirty, loaded, loadedName, q>>

Next == Train \/ Save \/ Load

Spec == Init /\ [][Next]_vars

NextQ == TrainQ \/ Save \/ Load \/ Query

SpecQ == Init /\ [][NextQ]_vars

(* the folders of the runs that lose files *)
LCorpora == { <<>>, << <<"the", "cat", "sat">> >>, ScenarioCorpus }

TrainL == TrainOn(LCorpora, LCorpora)

(* a file of the models directory is removed from outside the program; load
   expects it (except FileNotFoundError).  The driver keeps no reloaded copy
   across the change of the directory. *)
Delete ==
    /\ \E stem \in DOMAIN disk :
          disk' = [x \in DOMAIN disk \ {stem} |-> disk[x]]
    /\ loaded' = NoModel
    /\ loadedName' = ""
    /\ q' = NoModel
    /\ UNCHANGED <<m, trained, dirty, gen>>

(* the folders of the runs with damaged files *)
DCorpora == { <<>>, ScenarioCorpus }

TrainD == TrainOn(DCorpora, DCorpora)

Fields ==
    {"name", "n_gram_size", "use_smoothing", "use_stupid_backoff",
     "ngram_counts", "vocab"}

(* a saved document is damaged from outside the program: its text is no
   longer JSON, or one of its keys is gone; one document of the directory at
   a time *)
Damage ==
    /\ \A x \in DOMAIN disk : DOMAIN disk[x] = Fields
    /\ \E stem \in DOMAIN disk :
          /\ \E doc \in {Garbled} \cup
                         {[k \in Fields \ {key} |-> disk[stem][k]] : key \in Fields} :
                disk' = DiskWrite(disk, stem, doc)
    /\ loaded' = NoModel
    /\ loadedName' = ""
    /\ q' = NoModel
    /\ UNCHANGED <<m, trained, dirty, gen>>

NextD == TrainD \/ Save \/ Damage \/ Load

SpecD == Init /\ [][NextD]_vars

NextL == TrainL \/ Save \/ Delete \/ Load

SpecL == Init /\ [][NextL]_vars

(* the folders of the command-line runs *)
CCorpora == { <<>>, << <<"the", "cat">>, <<"the", "dog">> >>, ScenarioCorpus }

(* train.py builds one model, trains it once and saves it *)
TrainC == trained = <<>> /\ TrainOn(CCorpora, {})

SaveC == gen = Idle /\ Save

(* settings.DEFAULT_TOP_K, the value of --top-k when the option is absent;
   DEFAULT_TOP_P is None and DEFAULT_TEMPERATURE 1.0 *)
DEFAULT_TOP_K == 25

(* The command lines of generate.py: the documented "advanced sampling"
   (--top-k 25 --top-p 0.9 --temperature 0.8), --top-p 0.9 alone, and no
   sampling option.  click gives an absent option its default. *)
Invocations ==
    { [top_k |-> Some(25), top_p |-> Some(Frac(9, 10)), temperature |-> Frac(4, 5)],
      [top_k |-> Some(DEFAULT_TOP_K), top_p |-> Some(Frac(9, 10)),
       temperature |-> Frac(1, 1)],
      [top_k |-> Some(DEFAULT_TOP_K), top_p |-> None, temperature |-> Frac(1, 1)] }

(* generate.py: NgramModel.load(model_name), then model.generate(...) on the
   loaded instance up to the loop, with --tokens MaxTokens and with or
   without --seed "the"; an exception is logged and raised again *)
Command ==
    /\ gen = Idle
    /\ \E args \in Invocations, seed \in {None, Some(<<"the">>)} :
          LET model == load(ModelName, disk)
              failed(error) == Call("loaded", "error", error, seed, MaxTokens,
                                    args.top_k, args.top_p, args.temperature,
                                    <<>>, <<>>)
          IN /\ loaded' = model
             /\ loadedName' = ModelName
             /\ IF ~IsModel(model) THEN gen' = failed(model.error)
                ELSE LET error == Precheck(model, args.top_k, args.top_p,
                                           args.temperature)
                     IN IF error # "" THEN gen' = failed(error)
                        ELSE IF seed = None /\ DOMAIN model.model = {}
                             THEN gen' = failed("IndexError")
                        ELSE \E order \in Perms(model.vocab),
                                start \in (IF seed = None THEN DOMAIN model.model
                                           ELSE {Given(seed)}) :
                                gen' = Call("loaded", "running", "", seed,
                                            MaxTokens, args.top_k, args.top_p,
                                            args.temperature, order, start)
    /\ q' = NoModel
    /\ UNCHANGED <<m, trained, disk, dirty>>

NextC == TrainC \/ SaveC \/ Command \/ GenStep \/ GenReturn

SpecC == Init /\ [][NextC]_vars

(* the top-level names of the runs with several models in one directory *)
Names == {ModelName, BackoffName(ModelName, 2)}

NCorpora == { << <<"the", "cat", "sat">> >> }

InitN ==
    /\ \E name \in Names, n \in 1..MaxOrder, b \in BOOLEAN :
          m = NgramModel(name, n, FALSE, b)
    /\ trained = <<>>
    /\ disk = <<>>
    /\ dirty = FALSE
    /\ loaded = NoModel
    /\ loadedName = ""
    /\ q = NoModel
    /\ gen = Idle

(* train.py run once more, under a name of its own: a new model takes the
   place of the one that was saved *)
Construct ==
    /\ m.name \in DOMAIN disk
    /\ \E name \in Names, n \in 1..MaxOrder, b \in BOOLEAN :
          m' = NgramModel(name, n, FALSE, b)
    /\ trained' = <<>>
    /\ dirty' = FALSE
    /\ loaded' = NoModel
    /\ loadedName' = ""
    /\ q' = NoModel
    /\ UNCHANGED <<disk, gen>>

TrainN == trained = <<>> /\ TrainOn(NCorpora, {})

NextN == Construct \/ TrainN \/ Save

SpecN == InitN /\ [][NextN]_vars

NextG == TrainG \/ Query \/ GenStart \/ GenStep \/ GenReturn

SpecG == Init /\ [][NextG]_vars
----------------------------------------------------------------------------
(* Properties of train, save and load *)

(* P holds of a top-level instance and of every model of its chain *)
AllLevels(top, P(_)) ==
    /\ P(top)
    /\ \A i \in DOMAIN top.backoff_models : P(top.backoff_models[i])

HistoriesOf(n) == [1..(n - 1) -> Tokens]

HistoryTotal(self, h) ==
    IF h \in DOMAIN self.model THEN CounterTotal(self.model[h]) ELSE 0

(* the number of windows of n tokens in the documents whose first n-1 tokens
   are h, counted position by position *)
WindowCount(corpus, n, h) ==
    Cardinality({p \in UNION {{<<d, i>> : i \in 1..Len(corpus[d])} : d \in DOMAIN corpus} :
                    /\ p[2] + n - 1 <= Len(corpus[p[1]])
                    /\ SubSeq(corpus[p[1]], p[2], p[2] + n - 2) = h})

(* the counts and vocabulary of two instances are identical; model is
   compared first, ngram_counter only where the models agree *)
SameCounts(a, b) ==
    /\ a.model = b.model
    /\ a.vocab = b.vocab
    /\ a.ngram_counter = b.ngram_counter

Reloaded == ~dirty /\ loadedName = ModelName /\ IsModel(loaded)

(* C1: for a model of order 3 with backoff, trained once on three short
   sentences, save then load gives a model whose ngram_counter, model and
   vocab are identical to the original's at the top level and at the
   order-2 and order-1 backoff levels. *)
RoundTripIdentical ==
    (/\ Reloaded
     /\ m.n_gram_size = 3 /\ m.use_stupid_backoff
     /\ trained = <<ThreeSentences>>)
    => /\ SameCounts(loaded, m)
       /\ Len(loaded.backoff_models) = Len(m.backoff_models)
       /\ \A i \in DOMAIN m.backoff_models :
             SameCounts(loaded.backoff_models[i], m.backoff_models[i])

DistEq(a, b) ==
    IF IsError(a) \/ IsError(b) THEN IsError(a) /\ IsError(b) /\ a.error = b.error
    ELSE /\ DOMAIN a.dist = DOMAIN b.dist
         /\ \A w \in DOMAIN a.dist : FracEq(a.dist[w], b.dist[w])

(* C2: for every model trained once and saved, the model returned by
   load(name) gives, for every history, the same distribution as the
   original. *)
LoadSameDistribution ==
    (Reloaded /\ Len(trained) = 1)
    => \A h \in Histories :
          DistEq(conditional_probability_distribution(loaded, h),
                 conditional_probability_distribution(m, h))

(* C3: after one or more train calls, every n-gram (h..., w) with count c in
   ngram_counter has model[h][w] = c. *)
CountConsistency ==
    Len(trained) >= 1
    => \A g \in DOMAIN m.ngram_counter :
          /\ Front(g) \in DOMAIN m.model
          /\ Last(g) \in DOMAIN m.model[Front(g)]
          /\ m.model[Front(g)][Last(g)] = m.ngram_counter[g]

TotalsMatchWindows(self) ==
    /\ DOMAIN self.model \subseteq HistoriesOf(self.n_gram_size)
    /\ \A h \in HistoriesOf(self.n_gram_size) :
          HistoryTotal(self, h) = WindowCount(trained[1], self.n_gram_size, h)

(* C4: after a single train, for every history h the sum of model[h] over
   all continuations is the number of windows of n_gram_size tokens in the
   training documents that start with h; this holds of the model and of
   every model of its chain. *)
HistoryTotals == Len(trained) = 1 => AllLevels(m, TotalsMatchWindows)

HistoryTotalsWitness ==
    /\ Len(trained) = 1
    /\ m.n_gram_size = 2
    /\ m.backoff_models # <<>>
    /\ \E h \in HistoriesOf(2) : HistoryTotal(m, h) >= 2

(* C5: after one or more train calls on a model with backoff and order > 1,
   backoff_models is exactly the models of order n-1, n-2, ..., 1, each
   without backoff and without a chain of its own. *)
ChainShape ==
    (Len(trained) >= 1 /\ m.use_stupid_backoff /\ m.n_gram_size > 1)
    => /\ Len(m.backoff_models) = m.n_gram_size - 1
       /\ \A i \in DOMAIN m.backoff_models :
             /\ m.backoff_models[i].n_gram_size = m.n_gram_size - i
             /\ ~m.backoff_models[i].use_stupid_backoff
             /\ m.backoff_models[i].backoff_models = <<>>

UnigramPlain(self) ==
    self.n_gram_size = 1 => ~self.use_stupid_backoff /\ self.backoff_models = <<>>

(* C6, as stated: every instance (constructed, trained or loaded) of order 1
   has use_stupid_backoff false and an empty chain. *)
UnigramNoBackoff ==
    /\ AllLevels(m, UnigramPlain)
    /\ IsModel(loaded) => AllLevels(loaded, UnigramPlain)

UnigramChainEmpty(self) == self.n_gram_size = 1 => self.backoff_models = <<>>

ChainMemberPlain(self) ==
    \A i \in DOMAIN self.backoff_models :
        ~self.backoff_models[i].use_stupid_backoff

(* C6, amended: every instance of order 1 has an empty chain, and every
   model of a chain built by train has use_stupid_backoff false; the flag of
   a directly constructed or loaded model is the one it was given. *)
UnigramNoChain ==
    /\ AllLevels(m, UnigramChainEmpty)
    /\ IsModel(loaded) => AllLevels(loaded, UnigramChainEmpty)
    /\ ChainMemberPlain(m)

UnigramNoChainWitness ==
    /\ IsModel(loaded)
    /\ loaded.n_gram_size = 1 /\ loaded.use_stupid_backoff /\ loaded.vocab # {}
    /\ m.n_gram_size = 1 /\ Len(trained) = MaxTrains
----------------------------------------------------------------------------
(* Properties of conditional_probability_distribution *)

IsQuery == "history" \in DOMAIN q

One == Frac(1, 1)

RECURSIVE MassOver(_, _)
MassOver(dist, S) ==
    IF S = {} THEN Frac(0, 1)
    ELSE LET w == CHOOSE x \in S : TRUE
         IN FracAdd(dist[w], MassOver(dist, S \ {w}))

(* the total probability mass of a distribution *)
Mass(dist) == MassOver(dist, DOMAIN dist)

ShorterHist(history) == IF Len(history) > 0 THEN Tail(history) ELSE <<>>

RECURSIVE Discounted(_, _)
Discounted(d, k) ==
    IF k = 0 \/ IsError(d) THEN d
    ELSE Discounted([dist |-> ScaleDist(d.dist, BACKOFF_ALPHA)], k - 1)

(* backoff as C7 describes it: go down the chain, dropping the oldest token
   at each level, until a level has seen the history or order 1 is reached;
   the distribution of that level is discounted once per level passed *)
RECURSIVE Descend(_, _, _)
Descend(chain, i, h) ==
    IF i = Len(chain) \/ h \in DOMAIN chain[i].model
    THEN Discounted(conditional_probability_distribution(chain[i], h), i)
    ELSE Descend(chain, i + 1, ShorterHist(h))

(* C7: for a model of order n >= 3 with backoff, trained once, a history
   unseen at order n whose truncation is unseen at order n-1 is answered by
   continuing down the chain to order n-2 and so on to order 1. *)
BackoffWholeChain ==
    (/\ IsQuery /\ q.target = "m" /\ Len(trained) = 1
     /\ m.n_gram_size >= 3 /\ m.use_stupid_backoff
     /\ Len(q.history) = m.n_gram_size - 1
     /\ q.history \notin DOMAIN m.model
     /\ ShorterHist(q.history) \notin DOMAIN m.backoff_models[1].model
     /\ ~IsError(q.result))
    => DistEq(q.result, Descend(m.backoff_models, 1, ShorterHist(q.history)))

BackedOff(self) ==
    /\ q.history \notin DOMAIN self.model
    /\ self.use_stupid_backoff
    /\ self.backoff_models # <<>>
    /\ ~IsError(q.result)

(* C8: for an unseen history on a model with backoff and a non-empty chain,
   every returned probability is BACKOFF_ALPHA times the probability the
   model of the next lower order gives for the history without its oldest
   token; every entry is non-negative and the total mass is below 1. *)
BackoffScaled ==
    (IsQuery /\ BackedOff(Instance(q.target)))
    => LET self == Instance(q.target)
           next == self.backoff_models[1]
           lower == conditional_probability_distribution(next, ShorterHist(q.history))
       IN /\ next.n_gram_size = self.n_gram_size - 1
          /\ ~IsError(lower)
          /\ DOMAIN q.result.dist = DOMAIN lower.dist
          /\ \A w \in DOMAIN q.result.dist :
                /\ FracEq(q.result.dist[w], FracTimes(lower.dist[w], BACKOFF_ALPHA))
                /\ q.result.dist[w].num >= 0 /\ q.result.dist[w].den > 0
          /\ FracLess(Mass(q.result.dist), One)

BackoffScaledWitness ==
    /\ IsQuery /\ BackedOff(Instance(q.target))
    /\ Instance(q.target).n_gram_size = 3
    /\ Len(q.history) = 2
    /\ DOMAIN q.result.dist # {}

Smoothed(self) == self.use_smoothing /\ q.history \in DOMAIN self.model

(* C9: with smoothing, for a seen history the distribution has an entry for
   every vocabulary word, p(w) = (count(h,w)+1)/(total(h)+|vocab|), every
   entry is non-zero and the entries sum to 1. *)
LaplaceSmoothed ==
    (IsQuery /\ Smoothed(Instance(q.target)))
    => LET self == Instance(q.target)
           counts == self.model[q.history]
           denom == HistoryTotal(self, q.history) + Cardinality(self.vocab)
       IN /\ ~IsError(q.result)
          /\ DOMAIN q.result.dist = self.vocab
          /\ \A w \in self.vocab :
                /\ FracEq(q.result.dist[w], Frac(CounterGet(counts, w) + 1, denom))
                /\ q.result.dist[w].num > 0 /\ q.result.dist[w].den > 0
          /\ FracEq(Mass(q.result.dist), One)

LaplaceSmoothedWitness ==
    /\ IsQuery /\ Smoothed(Instance(q.target))
    /\ \E w \in Instance(q.target).vocab :
          w \notin DOMAIN Instance(q.target).model[q.history]
    /\ \E w \in Instance(q.target).vocab :
          CounterGet(Instance(q.target).model[q.history], w) >= 2

ScenarioBigram ==
    /\ m.n_gram_size = 2 /\ m.use_smoothing /\ ~m.use_stupid_backoff
    /\ trained = <<ScenarioCorpus>>

(* C10: the bigram model with smoothing and no backoff trained on "the cat
   sat" and "the dog sat" has vocabulary {the, cat, sat, dog}, counts only
   the four bigrams inside the documents (none across their boundary), and
   for the history ("the",) gives p(cat) = p(dog) = 2/6, p(sat) = p(the) =
   1/6. *)
ScenarioDistribution ==
    ScenarioBigram
    => /\ m.vocab = {"the", "cat", "sat", "dog"}
       /\ DOMAIN m.ngram_counter =
             {<<"the", "cat">>, <<"cat", "sat">>, <<"the", "dog">>, <<"dog", "sat">>}
       /\ \A g \in DOMAIN m.ngram_counter : m.ngram_counter[g] = 1
       /\ (IsQuery /\ q.target = "m" /\ q.history = <<"the">>)
          => /\ ~IsError(q.result)
             /\ DOMAIN q.result.dist = {"the", "cat", "sat", "dog"}
             /\ FracEq(q.result.dist["cat"], Frac(2, 6))
             /\ FracEq(q.result.dist["dog"], Frac(2, 6))
             /\ FracEq(q.result.dist["sat"], Frac(1, 6))
             /\ FracEq(q.result.dist["the"], Frac(1, 6))

ScenarioDistributionWitness ==
    ScenarioBigram /\ IsQuery /\ q.target = "m" /\ q.history = <<"the">>

Unsmoothed(self) == ~self.use_smoothing /\ q.history \in DOMAIN self.model

(* C11: without smoothing, for a seen history the distribution has exactly
   the continuations observed after it, each with p(w) = count(h,w)/total(h)
   > 0, and the entries sum to 1. *)
MLEObserved ==
    (IsQuery /\ Unsmoothed(Instance(q.target)))
    => LET self == Instance(q.target)
           counts == self.model[q.history]
           observed == {Last(g) : g \in {x \in DOMAIN self.ngram_counter :
                                            Front(x) = q.history}}
       IN /\ ~IsError(q.result)
          /\ DOMAIN q.result.dist = observed
          /\ \A w \in observed :
                /\ FracEq(q.result.dist[w],
                          Frac(counts[w], HistoryTotal(self, q.history)))
                /\ q.result.dist[w].num > 0 /\ q.result.dist[w].den > 0
          /\ FracEq(Mass(q.result.dist), One)

MLEObservedWitness ==
    /\ IsQuery /\ Unsmoothed(Instance(q.target))
    /\ Cardinality(DOMAIN q.result.dist) >= 2
    /\ \E v, w \in DOMAIN q.result.dist :
          FracLess(q.result.dist[v], q.result.dist[w])
    /\ \E w \in Instance(q.target).vocab : w \notin DOMAIN q.result.dist

----------------------------------------------------------------------------
(* Properties of generate *)

IsCall == gen # Idle

(* the call has come through at least one iteration of the loop *)
Stepped == IsCall /\ gen.status \in {"running", "done"} /\ gen.steps >= 1

(* the last k tokens of seq, all of it when it has fewer *)
LastTokens(seq, k) ==
    IF Len(seq) <= k THEN seq ELSE SubSeq(seq, Len(seq) - k + 1, Len(seq))

(* C12: at every step of generate the history passed to the distribution is
   the last order-1 tokens of the sequence generated so far (all of it when
   shorter); for order 1 it is the empty tuple. *)
HistoryIsLastTokens ==
    Stepped => gen.history = LastTokens(Front(gen.generated), m.n_gram_size - 1)

(* the call passed the three checks on a model with a vocabulary *)
Accepted ==
    /\ IsCall
    /\ m.vocab # {}
    /\ Precheck(m, gen.top_k, gen.top_p, gen.temperature) = ""

(* C13: on a model with non-empty vocabulary a call that passes the three
   checks, with or without a seed, raises nothing and returns the seed
   followed by exactly tokenCount generated tokens. *)
GenerateCompletes ==
    Accepted
    => /\ gen.status # "error"
       /\ gen.seed # None => gen.start = Given(gen.seed)
       /\ gen.status = "done"
          => /\ gen.steps = gen.tokens
             /\ Len(gen.generated) = Len(gen.start) + gen.tokens
             /\ SubSeq(gen.generated, 1, Len(gen.start)) = gen.start

(* the distribution the last iteration obtained *)
LastDist == conditional_probability_distribution(m, gen.history).dist

(* the text of k iterations that always take the first of the sorted items:
   a function of the instance, its iteration order and the seed alone *)
RECURSIVE Greedy(_)
Greedy(k) ==
    IF k = 0 THEN gen.start
    ELSE LET before == Greedy(k - 1)
             history == SliceLast(before, m.n_gram_size - 1)
             dist == conditional_probability_distribution(m, history).dist
         IN Append(before, sorted(DictKeys(m, history, trained, gen.order), dist)[1])

GreedyCall == Stepped /\ gen.top_k = Some(1)

(* C14: with topK = 1 the output is determined by the model instance, the
   seed and tokenCount, whatever is drawn and whatever the positive
   temperature: one candidate is left at every step, and the token emitted
   is a highest-probability candidate of the distribution for its history. *)
TopOneDeterministic ==
    GreedyCall
    => /\ Len(gen.kept) = 1
       /\ Last(gen.generated) = gen.kept[1]
       /\ \A w \in DOMAIN LastDist :
             ~FracLess(LastDist[Last(gen.generated)], LastDist[w])
       /\ gen.generated = Greedy(gen.steps)

TopOneDeterministicWitness ==
    /\ GreedyCall
    /\ gen.steps = MaxTokens
    /\ gen.temperature # Frac(1, 1)
    /\ Len(gen.sorted_items) >= 2
    /\ FracEq(LastDist[gen.sorted_items[1]], LastDist[gen.sorted_items[2]])

(* a step that is a call of generate *)
Calling == gen = Idle /\ gen' # Idle

(* the call raised error before the loop: nothing generated, nothing
   returned, and the model, the folder of saved models and the reloaded copy
   as they were *)
RaisedAtOnce(error) ==
    /\ gen'.status = "error" /\ gen'.error = error
    /\ gen'.generated = <<>> /\ gen'.steps = 0
    /\ m' = m /\ trained' = trained /\ disk' = disk /\ loaded' = loaded

BothSet(call) == Truthy(call.top_k) /\ TruthyFloat(call.top_p)

(* C15, as stated: a call with both topK and topP set fails with the
   conflicting-strategy error before any token is generated, returns nothing
   and leaves the model unchanged. *)
ConflictRejected ==
    [][(Calling /\ BothSet(gen')) => RaisedAtOnce("ConflictingSampling")]_vars

(* C15, amended: the same on a model whose vocabulary is not empty; on an
   empty vocabulary the empty-model check comes first. *)
ConflictRejectedTrained ==
    [][(Calling /\ BothSet(gen') /\ m.vocab # {})
        => RaisedAtOnce("ConflictingSampling")]_vars

ConflictRejectedTrainedWitness ==
    /\ IsCall /\ BothSet(gen) /\ m.vocab # {}
    /\ ~FracLess(Frac(0, 1), gen.temperature)
    /\ gen.error = "ConflictingSampling"

(* C16: a parameter counts as set only when non-null and non-zero, so a call
   with topK = 0 or topP = 0 and the other parameter set is not rejected for
   conflicting strategies. *)
ZeroIsUnset ==
    (IsCall /\ ~BothSet(gen)) => gen.error # "ConflictingSampling"

NonPositive(call) == ~FracLess(Frac(0, 1), call.temperature)

(* C17, as stated: on a model with non-empty vocabulary a call with
   temperature <= 0 fails with the invalid-parameter error before any token,
   for every seed, tokenCount, topK and topP. *)
TemperatureRejected ==
    [][(Calling /\ NonPositive(gen') /\ m.vocab # {})
        => RaisedAtOnce("InvalidTemperature")]_vars

(* C17, amended: the same unless topK and topP are both given, where the
   conflicting-strategy check comes first. *)
TemperatureRejectedAlone ==
    [][(Calling /\ NonPositive(gen') /\ m.vocab # {}
          /\ ~(gen'.top_k # None /\ gen'.top_p # None))
        => RaisedAtOnce("InvalidTemperature")]_vars

TemperatureRejectedAloneWitness ==
    /\ IsCall /\ m.vocab # {}
    /\ gen.temperature = Frac(0, 1)
    /\ gen.top_k = Some(0) /\ gen.top_p = None
    /\ gen.error = "InvalidTemperature"

(* C18: on a model with an empty vocabulary, never trained or trained on an
   empty folder, generate fails with the empty-model error and produces
   nothing, whatever the other parameters. *)
EmptyModelRejected ==
    [][(Calling /\ m.vocab = {}) => RaisedAtOnce("EmptyVocabulary")]_vars

EmptyModelRejectedWitness ==
    /\ IsCall /\ m.vocab = {} /\ trained # <<>>
    /\ gen.top_k # None /\ gen.top_p # None /\ NonPositive(gen)
    /\ gen.error = "EmptyVocabulary"

(* C19: after train the model is read-only: no distribution or generate
   call, with a seen or an unseen history, returning or raising, changes
   ngram_counter, model (its keys included), vocab or backoff_models of the
   instance or of a model of its chain. *)
ReadOnlyAfterTrain == [][trained' = trained => m' = m]_vars

(* a generate call has passed an unseen history on to the chain of a model
   trained with backoff *)
ReadOnlyAfterTrainWitness ==
    /\ Stepped
    /\ gen.history \notin DOMAIN m.model
    /\ m.use_stupid_backoff /\ m.backoff_models # <<>>
    /\ Tail(gen.history) \notin DOMAIN m.backoff_models[1].model

----------------------------------------------------------------------------
(* Properties of load on a directory with missing files *)

(* the instance holds the vocabulary and the counts of the document it was
   read from, for an order of 2 and more *)
FullyLoaded(self, model_data) ==
    /\ self.vocab = model_data.vocab
    /\ DOMAIN self.model = {Eval(text) : text \in DOMAIN model_data.ngram_counts}
    /\ \A text \in DOMAIN model_data.ngram_counts :
          /\ self.model[Eval(text)] = model_data.ngram_counts[text]
          /\ \A w \in DOMAIN model_data.ngram_counts[text] :
                CounterGet(self.ngram_counter, Append(Eval(text), w))
                    = model_data.ngram_counts[text][w]

LoadedWithBackoff ==
    IsModel(loaded) /\ loaded.use_stupid_backoff /\ loaded.n_gram_size >= 2

(* C20: load of a model with useBackoff true loads the levels order-1,
   order-2, ..., 1 in turn and stops, without failing, at the first level
   whose file is missing: the chain is the run of levels above that one,
   lower levels are left out even when their files exist, and the primary
   model holds all of its own counts and vocabulary. *)
LoadStopsAtGap ==
    LoadedWithBackoff
    => LET n == loaded.n_gram_size
           chain == loaded.backoff_models
           file(order) == BackoffName(loadedName, order)
       IN /\ Len(chain) <= n - 1
          /\ \A i \in DOMAIN chain :
                /\ file(n - i) \in DOMAIN disk
                /\ chain[i].n_gram_size = disk[file(n - i)].n_gram_size
                /\ chain[i].name = disk[file(n - i)].name
                /\ chain[i].vocab = disk[file(n - i)].vocab
          /\ Len(chain) < n - 1 => file(n - Len(chain) - 1) \notin DOMAIN disk
          /\ FullyLoaded(loaded, disk[loadedName])

(* the file of order 2 is missing, the file of order 1 is there, and the
   order-3 model came back with an empty chain *)
LoadStopsAtGapWitness ==
    /\ LoadedWithBackoff
    /\ loaded.n_gram_size = 3
    /\ loaded.vocab # {}
    /\ BackoffName(loadedName, 2) \notin DOMAIN disk
    /\ BackoffName(loadedName, 1) \in DOMAIN disk
    /\ loaded.backoff_models = <<>>

----------------------------------------------------------------------------
(* Properties of load on damaged documents *)

(* the document load was asked for is there and is not as save wrote it *)
LoadedDefective ==
    /\ loadedName \in DOMAIN disk
    /\ DOMAIN disk[loadedName] # Fields

(* C21: load of a document that does not parse, or that lacks one of name,
   n_gram_size, use_smoothing, use_stupid_backoff, ngram_counts and vocab,
   fails with an error and returns no model; no default stands in for what
   is missing. *)
DefectsRejected ==
    LoadedDefective => (~IsModel(loaded) /\ IsError(loaded))

----------------------------------------------------------------------------
(* Properties of the order of the training documents *)

(* the documents of a folder read in the order p of their positions *)
Reordered(corpus, p) == [i \in DOMAIN corpus |-> corpus[p[i]]]

(* the text of k greedy iterations on the instance self trained on corpora *)
RECURSIVE GreedyOn(_, _, _)
GreedyOn(self, corpora, k) ==
    IF k = 0 THEN gen.start
    ELSE LET before == GreedyOn(self, corpora, k - 1)
             history == SliceLast(before, self.n_gram_size - 1)
             dist == conditional_probability_distribution(self, history).dist
         IN Append(before,
                   sorted(DictKeys(self, history, corpora, gen.order), dist)[1])

(* C22: the order in which the training documents are read changes nothing
   observable: under every permutation of the documents train gives the
   same ngram_counter, model and vocab, the same distribution for every
   history, and the same text of generate with topK = 1 from the same
   seed. *)
DocumentOrderIrrelevant ==
    (GreedyCall /\ Len(trained) = 1)
    => \A p \in Perms(DOMAIN trained[1]) :
          LET other == <<Reordered(trained[1], p)>>
              fresh == NgramModel(m.name, m.n_gram_size, m.use_smoothing,
                                  m.use_stupid_backoff)
              self == train(fresh, other[1])
          IN /\ self = m
             /\ \A history \in Histories :
                   conditional_probability_distribution(self, history)
                       = conditional_probability_distribution(m, history)
             /\ GreedyOn(self, other, gen.steps) = gen.generated

----------------------------------------------------------------------------
(* Properties of the generate command *)

(* the command was run with --top-p on a trained and saved model *)
NucleusCommand ==
    /\ IsCall /\ gen.on = "loaded"
    /\ gen.top_p # None
    /\ trained # <<>> /\ m.vocab # {} /\ ~dirty

(* C23: the generate command supports nucleus sampling: run with --top-k 25
   --top-p 0.9 --temperature 0.8, or with --top-p alone, on a trained and
   saved model it completes and puts out generated text. *)
NucleusFromCommandLine == NucleusCommand => gen.status # "error"

----------------------------------------------------------------------------
(* Properties of the filters of a generation step *)

(* a step of a call on the trained instance that had top_p set *)
NucleusCall == Stepped /\ gen.on = "m" /\ TruthyFloat(gen.top_p)

(* the first k sorted items carry more than top_p, and no shorter prefix
   does *)
ShortestOver(k) ==
    /\ k >= 1
    /\ FracLess(Given(gen.top_p), CumSum(gen.sorted_items, LastDist, k))
    /\ \A j \in 1..(k - 1) :
          ~FracLess(Given(gen.top_p), CumSum(gen.sorted_items, LastDist, j))

(* C24: with topP set, the candidates kept at a step are the shortest prefix
   of the descending candidate list whose cumulative mass exceeds topP, the
   crossing candidate included, for every distribution the step can obtain,
   those that come through backoff included. *)
NucleusShortestPrefix ==
    NucleusCall
    => /\ gen.kept = SubSeq(gen.sorted_items, 1, Len(gen.kept))
       /\ ShortestOver(Len(gen.kept))

----------------------------------------------------------------------------
(* Properties of the chain after one train *)

(* the number of places in the documents where the window gram stands *)
Occurrences(corpus, gram) ==
    Cardinality({p \in UNION {{<<d, i>> : i \in 1..Len(corpus[d])} : d \in DOMAIN corpus} :
                    /\ p[2] + Len(gram) - 1 <= Len(corpus[p[1]])
                    /\ SubSeq(corpus[p[1]], p[2], p[2] + Len(gram) - 1) = gram})

Recounted(self) ==
    /\ self.vocab = m.vocab
    /\ DOMAIN self.ngram_counter \subseteq [1..self.n_gram_size -> Tokens]
    /\ \A gram \in [1..self.n_gram_size -> Tokens] :
          CounterGet(self.ngram_counter, gram) = Occurrences(trained[1], gram)

TrainedOnceWithBackoff ==
    Len(trained) = 1 /\ m.use_stupid_backoff /\ m.n_gram_size > 1

(* C25: after one train of a model with backoff and order n > 1 there is a
   chain model of every order k below n, and each holds a count of its own
   of the same folder: its ngram_counter gives for every window of k tokens
   the number of its occurrences in the documents, not a marginal of the
   counts of the model above, and its vocab is the vocab of the top model. *)
ChainRecounted ==
    TrainedOnceWithBackoff
    => /\ \A k \in 1..(m.n_gram_size - 1) :
             \E i \in DOMAIN m.backoff_models : m.backoff_models[i].n_gram_size = k
       /\ \A i \in DOMAIN m.backoff_models : Recounted(m.backoff_models[i])

(* a token ends a document, so that it is counted as a unigram and starts no
   n-gram of the top model *)
ChainRecountedWitness ==
    /\ TrainedOnceWithBackoff
    /\ m.n_gram_size = 3
    /\ \E w \in Tokens :
          /\ CounterGet(m.backoff_models[2].ngram_counter, <<w>>) >= 1
          /\ \A gram \in DOMAIN m.ngram_counter : gram[1] # w

----------------------------------------------------------------------------
(* Properties of several models saved in one directory *)

(* two results of load are the same: the same exception, or instances equal
   in every field and in every model of their chains *)
RECURSIVE SameInstance(_, _)
SameInstance(a, b) ==
    /\ a.name = b.name
    /\ a.n_gram_size = b.n_gram_size
    /\ a.use_smoothing = b.use_smoothing
    /\ a.use_stupid_backoff = b.use_stupid_backoff
    /\ a.vocab = b.vocab
    /\ a.model = b.model
    /\ a.ngram_counter = b.ngram_counter
    /\ Len(a.backoff_models) = Len(b.backoff_models)
    /\ \A i \in DOMAIN a.backoff_models :
          SameInstance(a.backoff_models[i], b.backoff_models[i])

SameReturn(a, b) ==
    IF IsModel(a) /\ IsModel(b) THEN SameInstance(a, b)
    ELSE ~IsModel(a) /\ ~IsModel(b) /\ a = b

(* the file of the name A holds a document that only a save of a top-level
   model named A has written: the chain model "m-2gram" of "m" has order 2
   and no backoff *)
SavedTopLevel(A) ==
    /\ A \in DOMAIN disk
    /\ \/ A = ModelName
       \/ disk[A].n_gram_size # 2
       \/ disk[A].use_stupid_backoff

(* C26: saved models are kept apart by their names: with top-level names
   that differ from one another, "m" and "m-2gram" included, saving the
   model named B leaves what load(A) returns, chain included, as it was for
   every other saved name A. *)
SavedApart ==
    [][disk' # disk
        => \A A \in Names \ {m.name} :
              SavedTopLevel(A) => SameReturn(load(A, disk'), load(A, disk))]_vars

----------------------------------------------------------------------------
(* Properties of the tokens a generation step appends *)

(* a step of a call on the instance after its one train *)
SteppedOnce == Stepped /\ gen.on = "m" /\ Len(trained) = 1

(* C27: for a model trained once, of any order and with any smoothing and
   backoff setting, every token a generation step appends is in the
   vocabulary of the model, whatever the seed (tokens outside the
   vocabulary included) and the accepted topK, topP and temperature. *)
TokensInVocabulary == SteppedOnce => Last(gen.generated) \in m.vocab

(* a seed outside the vocabulary, taken to the chain by a model without
   smoothing *)
TokensInVocabularyWitness ==
    /\ SteppedOnce
    /\ gen.seed = Some(<<Unknown>>)
    /\ gen.steps = MaxTokens
    /\ ~m.use_smoothing /\ m.backoff_models # <<>>
    /\ Cardinality(m.vocab) >= 2

(* the step had a seen history on an unsmoothed model of order 2 or more *)
SeenStep ==
    /\ SteppedOnce
    /\ ~m.use_smoothing /\ m.n_gram_size >= 2
    /\ gen.history \in DOMAIN m.model

(* C28: without smoothing, on a model of order >= 2 trained once, the token
   appended at a step whose history h is seen is an observed continuation of
   h: the n-gram (h..., token) has a positive count in ngram_counter, and
   stands in a training document. *)
SeenStepObserved ==
    SeenStep
    => LET gram == Append(gen.history, Last(gen.generated))
       IN /\ CounterGet(m.ngram_counter, gram) >= 1
          /\ Occurrences(trained[1], gram) >= 1

(* the history has a continuation that was not drawn, and the vocabulary a
   token that does not continue it *)
SeenStepObservedWitness ==
    /\ SeenStep
    /\ Cardinality(DOMAIN m.model[gen.history]) >= 2
    /\ \E w \in m.vocab : w \notin DOMAIN m.model[gen.history]

----------------------------------------------------------------------------
(* the chains a seen-history query is compared under: none, the instance's
   own, and its own without the next lower order *)
OtherChains(self) ==
    {<<>>, self.backoff_models}
        \cup (IF self.backoff_models = <<>> THEN {} ELSE {Tail(self.backoff_models)})

SeenQuery == IsQuery /\ q.history \in DOMAIN Instance(q.target).model

(* C29: for a history present in the conditional counts the backoff chain is
   not consulted: the distribution returned is the one the same counts give
   with backoff enabled or disabled and with any chain, and without
   smoothing it holds no continuation that was not observed after the
   history. *)
SeenIgnoresChain ==
    SeenQuery
    => LET self == Instance(q.target)
       IN /\ \A b \in BOOLEAN, chain \in OtherChains(self) :
                q.result = conditional_probability_distribution(
                               [self EXCEPT !.use_stupid_backoff = b,
                                            !.backoff_models = chain],
                               q.history)
          /\ ~self.use_smoothing
                => DOMAIN q.result.dist = DOMAIN self.model[q.history]

SeenIgnoresChainWitness ==
    /\ SeenQuery
    /\ LET self == Instance(q.target)
       IN /\ self.use_stupid_backoff /\ ~self.use_smoothing
          /\ self.backoff_models # <<>>
          /\ \E w \in self.backoff_models[1].vocab :
                w \notin DOMAIN q.result.dist

----------------------------------------------------------------------------
(* Properties of the filters of a step *)

(* a step of a call on the trained model that obtained candidates *)
Filtered == IsCall /\ gen.on = "m" /\ gen.sorted_items # <<>>

Min(a, b) == IF a <= b THEN a ELSE b

(* C30: at every step of a call that passed the precondition checks, the
   candidates left after the top-k and top-p filters are not empty and the
   step samples a token, for every integer topK; for topK >= 1 the list has
   min(topK, number of candidates) entries and no discarded candidate is
   more probable than a retained one. *)
FilteredNonEmpty ==
    Filtered
    => /\ gen.kept # <<>>
       /\ gen.status # "error"
       /\ (gen.top_k # None /\ Given(gen.top_k) >= 1)
             => /\ Len(gen.kept) = Min(Given(gen.top_k), Len(gen.sorted_items))
                /\ \A w \in Range(gen.kept) :
                      \A v \in Range(gen.sorted_items) \ Range(gen.kept) :
                         ~FracLess(LastDist[w], LastDist[v])
====
